---- MODULE Spec2Model ----
(***************************************************************************)
(* The Products view set of the Bangazon API (bangazonapi/views/product.py) *)
(* and the UserLike model (bangazonapi/models/userlike.py) as a state      *)
(* machine.  One action per request handler; every handler runs to         *)
(* completion (one request at a time, no transaction spans two requests).  *)
(*                                                                         *)
(* Framework semantics the handlers rely on, as modelled here:             *)
(*  - Model.objects.get(...) returns the row when exactly one row matches, *)
(*    raises DoesNotExist when none does and MultipleObjectsReturned when  *)
(*    several do.                                                          *)
(*  - An exception no handler catches becomes an HTTP 500 response and     *)
(*    leaves the tables as they were at the point of the raise.            *)
(*  - Primary keys are handed out by an auto-increment counter and are     *)
(*    never reused.  (The key of a rating row is read by no handler and is *)
(*    left out.)                                                           *)
(*  - UserLike.product is a ForeignKey to Product with                     *)
(*    related_name="liked": Product gets a reverse accessor named `liked`  *)
(*    (a related manager).  Assigning to it raises TypeError, it can be    *)
(*    used as a query lookup (liked=<pk of a like row>), and a serializer  *)
(*    field called `liked` renders the like rows of the product.           *)
(*  - HttpResponse(content, status=s) answers with status s whatever the   *)
(*    default status of the response class is.                             *)
(* Every request is made by an authenticated customer.  Not modelled: the  *)
(* image payload of create (decoded and stored, read by no handler) and    *)
(* the description, quantity and owner columns (stored, read by no         *)
(* handler).                                                               *)
(***************************************************************************)
EXTENDS Integers, Sequences, FiniteSets, TLC

\* ---- bounds -------------------------------------------------------------
MaxProducts == 2      \* products ever created
MaxLikes == 2         \* like rows ever created

\* ---- input domains ------------------------------------------------------
Customers == {"c1", "c2"}
Categories == {1, 2}              \* ProductCategory rows in the store
RatingValues == {1, 5}
Dates == {1, 2}                   \* created_date values (days)

\* the POST rate requests: who rates, and the rating in the body
RateRequests ==
  {[customer |-> "c1", rating |-> 1], [customer |-> "c2", rating |-> 5]}

\* the day the requests are made on (created_date of a new product)
Today == CHOOSE d \in Dates : \A e \in Dates : e <= d

\* request bodies; prices are in cents (14.99 = 1499); category 9 is not in
\* the store; update also reads created_date
CreateBodies ==
  { [name |-> "Kite", price |-> 1499, location |-> <<"a", "b">>, category_id |-> 1],
    [name |-> "Lamp", price |-> 999, location |-> <<"a">>, category_id |-> 9] }

UpdateBodies ==
  { [name |-> "Ball", price |-> 1000, location |-> <<"b">>, category_id |-> 2,
     created_date |-> 1],
    [name |-> "Lamp", price |-> 999, location |-> <<"a">>, category_id |-> 9,
     created_date |-> 1] }

\* an optional query parameter: {} when absent, {v} when given as v
Opt(S) == {{}} \cup {{v} : v \in S}
Val(o) == CHOOSE v \in o : TRUE

VARIABLES
  products,        \* Product table: id -> row
  likes,           \* UserLike table: set of [id, product, customer]
  ratings,         \* ProductRating table: set of [product, customer, rating]
  nextProductId,   \* auto-increment counter of Product
  nextLikeId,      \* auto-increment counter of UserLike
  response         \* the response to the last request

vars == <<products, likes, ratings, nextProductId, nextLikeId, response>>

\* ---- rest_framework.status: the names the module defines ----------------
status ==
  [HTTP_200_OK |-> 200, HTTP_201_CREATED |-> 201, HTTP_204_NO_CONTENT |-> 204,
   HTTP_400_BAD_REQUEST |-> 400, HTTP_404_NOT_FOUND |-> 404,
   HTTP_422_UNPROCESSABLE_ENTITY |-> 422, HTTP_500_INTERNAL_SERVER_ERROR |-> 500]

\* ---- ORM helpers --------------------------------------------------------
\* Model.objects.get over the set of matching rows
Get(rows) ==
  IF rows = {} THEN "DoesNotExist"
  ELSE IF Cardinality(rows) = 1 THEN "ok"
  ELSE "MultipleObjectsReturned"

ProductExists(pk) == pk \in DOMAIN products

LikesOn(pk) == {l \in likes : l.product = pk}
LikesOf(pk, c) == {l \in likes : l.product = pk /\ l.customer = c}
RatingsOn(pk) == {r \in ratings : r.product = pk}

\* ProductSerializer renders a product row field by field (its `liked` field
\* is the reverse accessor of UserLike.product, the like rows of the product);
\* a response body is kept as the sequence of the ids of the rows it renders
Serialize(pk) == pk

NoCust == "-"     \* in responses that do not depend on who asked

Resp(op, pk, c, st, body) ==
  [op |-> op, pk |-> pk, cust |-> c, status |-> st, body |-> body]

NoPk == 0         \* in responses that name no product

\* an exception that no handler catches: the framework answers 500 with its
\* error page
Uncaught(op) ==
  Resp(op, NoPk, NoCust, status.HTTP_500_INTERNAL_SERVER_ERROR, <<>>)

Init ==
  /\ products = <<>>
  /\ likes = {}
  /\ ratings = {}
  /\ nextProductId = 1
  /\ nextLikeId = 1
  /\ response = Resp("none", NoPk, NoCust, status.HTTP_200_OK, <<>>)

\* ---- create -------------------------------------------------------------
Create(b) ==
  /\ nextProductId <= MaxProducts
  /\ IF b.category_id \notin Categories
       THEN \* ProductCategory.objects.get raises DoesNotExist, not caught
            /\ response' = Uncaught("create")
            /\ UNCHANGED <<products, likes, ratings, nextProductId, nextLikeId>>
       ELSE LET pk == nextProductId
                row == [name |-> b.name, price |-> b.price, location |-> b.location,
                        category |-> b.category_id, created_date |-> Today,
                        number_sold |-> 0]
            IN /\ products' = (pk :> row) @@ products
               /\ nextProductId' = nextProductId + 1
               /\ response' = Resp("create", pk, NoCust, status.HTTP_201_CREATED,
                                   <<pk>>)
               /\ UNCHANGED <<likes, ratings, nextLikeId>>

\* ---- retrieve -----------------------------------------------------------
\* HttpResponseServerError(content, status=st): the response class answers
\* 500 unless a status is passed, and then it answers that status
HttpResponseServerErrorDefault(st) == status.HTTP_500_INTERNAL_SERVER_ERROR

HttpResponseServerError(st) == st

Retrieve(pk) ==
  /\ response' =
       IF ProductExists(pk)
         THEN Resp("retrieve", pk, NoCust, status.HTTP_200_OK, <<Serialize(pk)>>)
         ELSE Resp("retrieve", pk, NoCust,
                   HttpResponseServerError(status.HTTP_404_NOT_FOUND), <<>>)
  /\ UNCHANGED <<products, likes, ratings, nextProductId, nextLikeId>>

\* ---- update -------------------------------------------------------------
Update(pk, b) ==
  IF ~ProductExists(pk) \/ b.category_id \notin Categories
    THEN \* Product.objects.get or ProductCategory.objects.get raises; save()
         \* has not run
         /\ response' = Uncaught("update")
         /\ UNCHANGED <<products, likes, ratings, nextProductId, nextLikeId>>
    ELSE /\ products' = [products EXCEPT ![pk] =
                           [@ EXCEPT !.name = b.name, !.price = b.price,
                                     !.location = b.location,
                                     !.category = b.category_id,
                                     !.created_date = b.created_date]]
         /\ response' = Resp("update", pk, NoCust, status.HTTP_204_NO_CONTENT, <<>>)
         /\ UNCHANGED <<likes, ratings, nextProductId, nextLikeId>>

\* ---- destroy ------------------------------------------------------------
\* rows that go with a deleted product: UserLike.product is on_delete=CASCADE
KeepLikes(pk) == likes

CascadeLikes(pk) == {l \in likes : l.product # pk}
\* ProductRating.product (model not among the sources) taken as CASCADE too
CascadeRatings(pk) == {r \in ratings : r.product # pk}

DestroyUnchecked(pk) ==
  /\ products' = [p \in DOMAIN products \ {pk} |-> products[p]]
  /\ likes' = CascadeLikes(pk)
  /\ ratings' = CascadeRatings(pk)
  /\ response' = Resp("destroy", pk, NoCust, status.HTTP_204_NO_CONTENT, <<>>)
  /\ UNCHANGED <<nextProductId, nextLikeId>>

Destroy(pk) ==
  IF ProductExists(pk)
    THEN /\ products' = [p \in DOMAIN products \ {pk} |-> products[p]]
         /\ likes' = CascadeLikes(pk)
         /\ ratings' = CascadeRatings(pk)
         /\ response' = Resp("destroy", pk, NoCust, status.HTTP_204_NO_CONTENT, <<>>)
         /\ UNCHANGED <<nextProductId, nextLikeId>>
    ELSE /\ response' = Resp("destroy", pk, NoCust, status.HTTP_404_NOT_FOUND, <<>>)
         /\ UNCHANGED <<products, likes, ratings, nextProductId, nextLikeId>>

\* ---- rate ---------------------------------------------------------------
\* the rows ProductRating.objects.get(product=product) looks among
ExistingRatingScoped(pk, c) == {r \in RatingsOn(pk) : r.customer = c}

ExistingRating(pk, c) == RatingsOn(pk)

RatePost(pk, c, rating) ==
  IF ~ProductExists(pk)
    THEN /\ response' = Uncaught("rate_post")
         /\ UNCHANGED <<products, likes, ratings, nextProductId, nextLikeId>>
    ELSE LET found == Get(ExistingRating(pk, c)) IN
         /\ IF found = "ok"
              THEN /\ response' = Resp("rate_post", pk, c,
                                       status.HTTP_422_UNPROCESSABLE_ENTITY, <<>>)
                   /\ ratings' = ratings
              ELSE IF found = "DoesNotExist"
              THEN /\ ratings' = ratings \cup
                                   {[product |-> pk, customer |-> c, rating |-> rating]}
                   /\ response' = Resp("rate_post", pk, c,
                                       status.HTTP_201_CREATED, <<>>)
              ELSE /\ response' = Uncaught("rate_post")
                   /\ ratings' = ratings
         /\ UNCHANGED <<products, likes, nextProductId, nextLikeId>>

\* PUT is routed to rate but no branch handles it: the handler returns None
\* and the framework fails the request
RatePut(pk) ==
  /\ response' = Uncaught("rate_put")
  /\ UNCHANGED <<products, likes, ratings, nextProductId, nextLikeId>>

\* ---- like ---------------------------------------------------------------
\* the rows UserLike.objects.get(product=product) looks among
ExistingLikeScoped(pk, c) == LikesOf(pk, c)

ExistingLike(pk, c) == LikesOn(pk)

LikePost(pk, c) ==
  IF ~ProductExists(pk)
    THEN /\ response' = Uncaught("like_post")
         /\ UNCHANGED <<products, likes, ratings, nextProductId, nextLikeId>>
    ELSE LET found == Get(ExistingLike(pk, c)) IN
         /\ IF found = "ok"
              THEN /\ response' = Resp("like_post", pk, c,
                                       status.HTTP_422_UNPROCESSABLE_ENTITY, <<>>)
                   /\ UNCHANGED <<likes, nextLikeId>>
              ELSE IF found = "DoesNotExist"
              THEN /\ nextLikeId <= MaxLikes
                   /\ likes' = likes \cup
                                 {[id |-> nextLikeId, product |-> pk, customer |-> c]}
                   /\ nextLikeId' = nextLikeId + 1
                   /\ response' = Resp("like_post", pk, c,
                                       status.HTTP_201_CREATED, <<>>)
              ELSE /\ response' = Uncaught("like_post")
                   /\ UNCHANGED <<likes, nextLikeId>>
         /\ UNCHANGED <<products, ratings, nextProductId>>

\* the answer of the DELETE branch when the like is absent: the handler
\* reads status.HTTP_404_NOT_found, a name the status module does not define,
\* so the except clause itself raises AttributeError, which nothing catches
UnlikeAbsent(pk, c) ==
  IF "HTTP_404_NOT_found" \in DOMAIN status
    THEN Resp("like_delete", pk, NoCust, status["HTTP_404_NOT_found"], <<>>)
    ELSE Uncaught("like_delete")

LikeDelete(pk, c) ==
  IF ~ProductExists(pk)
    THEN /\ response' = Resp("like_delete", pk, NoCust, status.HTTP_400_BAD_REQUEST, <<>>)
         /\ UNCHANGED <<products, likes, ratings, nextProductId, nextLikeId>>
    ELSE LET found == Get(LikesOf(pk, c)) IN
         /\ IF found = "ok"
              THEN /\ likes' = likes \ LikesOf(pk, c)
                   /\ response' = Resp("like_delete", pk, NoCust,
                                       status.HTTP_204_NO_CONTENT, <<>>)
              ELSE IF found = "DoesNotExist"
              THEN /\ response' = UnlikeAbsent(pk, c)
                   /\ likes' = likes
              ELSE /\ response' = Uncaught("like_delete")
                   /\ likes' = likes
         /\ UNCHANGED <<products, ratings, nextProductId, nextLikeId>>

\* ---- list ---------------------------------------------------------------
\* the accessor Product gets from UserLike.product's related_name
RelatedName == "liked"

\* `product.<attr> = value` on a Product row: assigning to the reverse
\* accessor of a foreign key is prohibited and raises TypeError
SetAttr(attr) == IF attr = RelatedName THEN "TypeError" ELSE "ok"

\* the loop that marks every product (product.liked = None, then True/False)
AnnotateLiked == IF DOMAIN products = {} THEN "ok" ELSE SetAttr("liked")

\* location__contains: substring match
Contains(s, sub) ==
  \E i \in 0 .. (Len(s) - Len(sub)) : SubSeq(s, i + 1, i + Len(sub)) = sub

Perms(S) ==
  {f \in [1 .. Cardinality(S) -> S] : \A i, j \in DOMAIN f : i # j => f[i] # f[j]}

Sorted(s, field, desc) ==
  \A i, j \in DOMAIN s :
    i < j => IF desc THEN products[s[i]][field] >= products[s[j]][field]
             ELSE products[s[i]][field] <= products[s[j]][field]

\* the rows a query set yields: in the requested order, ties and unordered
\* query sets in whatever order the database returns
Evaluate(S, ord) ==
  IF ord = {} THEN Perms(S)
  ELSE {s \in Perms(S) : Sorted(s, Val(ord).field, Val(ord).desc)}

Take(s, n) == SubSeq(s, 1, IF n < Len(s) THEN n ELSE Len(s))

\* int(min_price) is in whole currency units, prices are in cents
MinPriceCents(n) == n * 100

sold_filter(pk, number_sold) == products[pk].number_sold >= number_sold
price_filter(pk, min_price) == products[pk].price >= MinPriceCents(min_price)

\* the filter steps of list, in the order the handler applies them
ListResults(req) ==
  LET S1 == IF req.location = {} THEN DOMAIN products
            ELSE {p \in DOMAIN products :
                    Contains(products[p].location, Val(req.location))}
      ord1 == IF req.order_by = {} THEN {}
              ELSE {[field |-> Val(req.order_by), desc |-> req.direction = {"desc"}]}
      S2 == IF req.category = {} THEN S1
            ELSE {p \in S1 : products[p].category = Val(req.category)}
      ord2 == IF req.quantity = {} THEN ord1
              ELSE {[field |-> "created_date", desc |-> TRUE]}
      rows == {IF req.quantity = {} THEN s ELSE Take(s, Val(req.quantity)) :
                 s \in Evaluate(S2, ord2)}
      sold(s) == IF req.number_sold = {} THEN s
                 ELSE SelectSeq(s, LAMBDA p : sold_filter(p, Val(req.number_sold)))
      priced(s) == IF req.min_price = {} THEN s
                   ELSE SelectSeq(s, LAMBDA p : price_filter(p, Val(req.min_price)))
  IN {priced(sold(s)) : s \in rows}

SerializeMany(s) == [i \in DOMAIN s |-> Serialize(s[i])]

List(c, req) ==
  /\ IF AnnotateLiked = "TypeError"
       THEN response' = Uncaught("list")
       ELSE \E s \in ListResults(req) :
              response' = Resp("list", NoPk, NoCust, status.HTTP_200_OK, SerializeMany(s))
  /\ UNCHANGED <<products, likes, ratings, nextProductId, nextLikeId>>

\* ---- liked --------------------------------------------------------------
\* the value of a lookup on a relation is taken as the primary key of the
\* related row: True is the key 1
AsPkNone(v) == 0

AsPk(v) == IF v THEN 1 ELSE 0

\* Product.objects.filter(liked=v): `liked` is the relation to UserLike
FilterLiked(v) ==
  {pk \in DOMAIN products : \E l \in LikesOn(pk) : l.id = AsPk(v)}

Liked ==
  /\ \E s \in Perms(FilterLiked(TRUE)) :
       response' = Resp("liked", NoPk, NoCust, status.HTTP_200_OK, SerializeMany(s))
  /\ UNCHANGED <<products, likes, ratings, nextProductId, nextLikeId>>

\* ---- requests -----------------------------------------------------------
\* the ids requests name: the ids handed out so far and ids not yet handed out
Pks == 1 .. MaxProducts

AllListRequests ==
  [location : Opt({<<"b">>}), order_by : Opt({"price"}), direction : Opt({"desc"}),
   category : Opt({1}), quantity : Opt({1}), number_sold : Opt({1}),
   min_price : Opt({10})]

Given(req) ==
  {k \in DOMAIN req : req[k] # {}}

\* no parameter, min_price or quantity alone, an ordering with its direction,
\* or all parameters
ListRequests ==
  {r \in AllListRequests :
     Given(r) \in {{}, {"min_price"}, {"quantity"}, {"order_by", "direction"},
                   DOMAIN r}}

Next ==
  \/ \E b \in CreateBodies : Create(b)
  \/ \E pk \in Pks : Retrieve(pk)
  \/ \E pk \in Pks, b \in UpdateBodies : Update(pk, b)
  \/ \E pk \in Pks : Destroy(pk)
  \/ \E pk \in Pks, q \in RateRequests : RatePost(pk, q.customer, q.rating)
  \/ \E pk \in Pks : RatePut(pk)
  \/ \E pk \in Pks, c \in Customers : LikePost(pk, c)
  \/ \E pk \in Pks, c \in Customers : LikeDelete(pk, c)
  \/ \E c \in Customers, req \in ListRequests : List(c, req)
  \/ Liked

Spec == Init /\ [][Next]_vars

\* ======================= properties =======================================

TypeOK ==
  /\ DOMAIN products \subseteq 1 .. MaxProducts
  /\ nextProductId \in 1 .. (MaxProducts + 1)
  /\ nextLikeId \in 1 .. (MaxLikes + 1)
  /\ \A l \in likes : l.id \in 1 .. MaxLikes /\ l.customer \in Customers
  /\ \A r \in ratings : r.customer \in Customers /\ r.rating \in RatingValues

\* C1: a POST like on a product of the store is rejected with 422 and adds no
\* like row whenever some like row exists on the product, whoever made it;
\* when none exists it adds exactly one row for (product, requester) and
\* answers 201.
C1_LikePostOncePerProduct ==
  [][response'.op = "like_post" =>
     \A pk \in Pks, c \in Customers :
       (LikePost(pk, c) /\ ProductExists(pk)) =>
         IF \E l \in likes : l.product = pk
           THEN response'.status = 422 /\ likes' = likes
           ELSE /\ response'.status = 201
                /\ Cardinality(likes' \ likes) = 1
                /\ likes \subseteq likes'
                /\ \A l \in likes' \ likes : l.product = pk /\ l.customer = c]_vars

\* a like of one customer rejected because of the like of another
C1_Witness ==
  /\ response.op = "like_post"
  /\ response.status = 422
  /\ \E l \in likes : l.product = response.pk /\ l.customer # response.cust

\* C2: a DELETE like on a product of the store answers 404 and leaves the
\* like rows alone when the requester has no like on the product; when the
\* row exists it is removed and the answer is 204.
C2_UnlikeAbsentIs404 ==
  [][response'.op = "like_delete" =>
     \A pk \in Pks, c \in Customers :
       (LikeDelete(pk, c) /\ ProductExists(pk)) =>
         IF \E l \in likes : l.product = pk /\ l.customer = c
           THEN /\ response'.status = 204
                /\ likes' = {l \in likes : ~(l.product = pk /\ l.customer = c)}
           ELSE response'.status = 404 /\ likes' = likes]_vars

\* C3: the first POST rate on a product adds one rating row with the
\* submitted rating for (product, requester) and answers 201; a POST rate
\* while a rating on the product exists answers 422 and adds no row; no
\* product ever has more than one rating row.
C3_RateOncePerProduct ==
  /\ [][response'.op = "rate_post" =>
        \A pk \in Pks, c \in Customers, r \in RatingValues :
          (RatePost(pk, c, r) /\ ProductExists(pk)) =>
            IF \E x \in ratings : x.product = pk
              THEN response'.status = 422 /\ ratings' = ratings
              ELSE /\ response'.status = 201
                   /\ ratings' = ratings \cup
                        {[product |-> pk, customer |-> c, rating |-> r]}]_vars
  /\ [](\A pk \in Pks : Cardinality({x \in ratings : x.product = pk}) <= 1)

\* a rating of one customer rejected because of the rating of another
C3_Witness ==
  /\ response.op = "rate_post"
  /\ response.status = 422
  /\ \E x \in ratings : x.product = response.pk /\ x.customer # response.cust

\* C4 as stated: retrieving an id that is not in the store answers with
\* status 500; retrieving an id that is in the store answers 200 with that
\* product.
C4_RetrieveMissingIs500 ==
  response.op = "retrieve" =>
    IF ProductExists(response.pk)
      THEN response.status = 200 /\ response.body = <<response.pk>>
      ELSE response.status = 500

\* C4 amended: retrieving an id that is not in the store answers with status
\* 404 (the status passed to the server-error response class); retrieving an
\* id that is in the store answers 200 with that product.
C4_RetrieveMissingIs404 ==
  response.op = "retrieve" =>
    IF ProductExists(response.pk)
      THEN response.status = 200 /\ response.body = <<response.pk>>
      ELSE response.status = 404 /\ response.body = <<>>

C4_Witness ==
  /\ response.op = "retrieve"
  /\ ~ProductExists(response.pk)
  /\ DOMAIN products # {}

\* C5: a list request with min_price=N answers 200 with exactly those
\* products, of the ones the earlier filter steps leave, whose price is at
\* least N.
C5_MinPriceFilter ==
  [][response'.op = "list" =>
     \A c \in Customers, req \in ListRequests :
       (List(c, req) /\ req.min_price # {}) =>
         /\ response'.status = 200
         /\ \E s \in ListResults([req EXCEPT !.min_price = {}]) :
              response'.body =
                SelectSeq(s, LAMBDA p : products[p].price >= 100 * Val(req.min_price))]_vars

\* C6: destroy of an id in the store removes exactly that product and answers
\* 204; destroy of an id not in the store answers 404 and leaves the product
\* table unchanged.
C6_Destroy ==
  [][response'.op = "destroy" =>
     \A pk \in Pks :
       Destroy(pk) =>
         IF pk \in DOMAIN products
           THEN /\ response'.status = 204
                /\ DOMAIN products' = DOMAIN products \ {pk}
                /\ \A q \in DOMAIN products' : products'[q] = products[q]
           ELSE response'.status = 404 /\ products' = products]_vars

\* a product destroyed while another one stays
C6_Witness ==
  /\ response.op = "destroy"
  /\ response.status = 204
  /\ DOMAIN products # {}

\* C7 as stated: the liked request answers an empty array in every state.
C7_LikedAlwaysEmpty ==
  response.op = "liked" => response.body = <<>>

\* C7 amended: the liked request answers 200 with the product that the like
\* row with primary key 1 (the first like ever made, by whichever customer)
\* is on, as long as that row exists, and with an empty array otherwise.
C7_LikedIsProductOfFirstLike ==
  response.op = "liked" =>
    /\ response.status = 200
    /\ IF \E l \in likes : l.id = 1
         THEN \E l \in likes : l.id = 1 /\ response.body = <<l.product>>
         ELSE response.body = <<>>

C7_Witness ==
  /\ response.op = "liked"
  /\ Len(response.body) = 1
  /\ Cardinality(likes) = 2

\* what the serializer renders as the `liked` field of a product: the like
\* rows reached through the reverse accessor
RenderLiked(pk) == [rows |-> LikesOn(pk)]

\* C8: for every combination of query parameters the list request answers
\* 200 and every product in the answer carries a liked flag that is true
\* exactly when the requester has a like on that product.
C8_ListMarksLiked ==
  [][response'.op = "list" =>
     \A c \in Customers, req \in ListRequests :
       List(c, req) =>
         /\ response'.status = 200
         /\ \A i \in DOMAIN response'.body :
              RenderLiked(response'.body[i]) =
                [flag |-> \E l \in likes : l.product = response'.body[i]
                                            /\ l.customer = c]]_vars

\* C9: with quantity=N the answer is 200 and is drawn from the N most
\* recently created products among those matching location and category,
\* in descending created_date order whatever order_by and direction say;
\* number_sold and min_price only remove items from those N.
C9_QuantityTakesMostRecent ==
  [][response'.op = "list" =>
     \A c \in Customers, req \in ListRequests :
       (List(c, req) /\ req.quantity # {}) =>
         LET match == {p \in DOMAIN products :
                         /\ req.location # {} =>
                              Contains(products[p].location, Val(req.location))
                         /\ req.category # {} =>
                              products[p].category = Val(req.category)}
             keep(p) == /\ req.number_sold # {} =>
                             products[p].number_sold >= Val(req.number_sold)
                        /\ req.min_price # {} =>
                             products[p].price >= 100 * Val(req.min_price)
         IN /\ response'.status = 200
            /\ Len(response'.body) <= Val(req.quantity)
            /\ \E s \in Perms(match) :
                 /\ Sorted(s, "created_date", TRUE)
                 /\ response'.body =
                      SelectSeq(Take(s, Val(req.quantity)), keep)]_vars

\* C10: every like row refers to a product of the store (destroy removes the
\* like rows of the product with it), and a product that has just been
\* created has no like row on it.
C10_LikesReferToStoredProducts ==
  /\ \A l \in likes : l.product \in DOMAIN products
  /\ (response.op = "create" /\ response.status = 201) =>
       ~(\E l \in likes : l.product = response.pk)

\* the second product liked after the first, which had a like, is gone
C10_Witness ==
  /\ response.op = "like_post"
  /\ response.status = 201
  /\ response.pk = 2
  /\ ~ProductExists(1)
  /\ nextLikeId = 3
  /\ Cardinality(likes) = 1
====
